---- MODULE Spec2Model ----
(***************************************************************************)
(* State-machine model of the GOT simulator's rules core:                  *)
(*   game_state.py  - Location, Order, GameState                           *)
(*   legal_moves.py - LegalMoveGenerator                                   *)
(* Python's None is the string "None"; a Location-typed field holding None *)
(* is the record NoLocation.  Every operation leaves what it returned, or  *)
(* the exception it raised, in the variable ret.                           *)
(***************************************************************************)
EXTENDS Integers, Sequences, FiniteSets, TLC

\* locations, turn, turn_order, current_turn_index, player_stats and
\* turn_history: the GameState fields.  player_stats is a dict, which keeps
\* its keys in the order they were inserted: the sequence of the PlayerStats
\* objects in that order, each under the key it carries as bot_id.
\* ret: the outcome of the last call.  rotation: a history variable, the
\* number of next_turn calls made since the pointer last stood at index 0
\* and the turn counter at that moment.
VARIABLES locations, turn, turn_order, current_turn_index, player_stats,
          turn_history, ret, rotation

vars == <<locations, turn, turn_order, current_turn_index, player_stats,
          turn_history, ret, rotation>>

turnVars == <<turn, turn_order, current_turn_index, rotation>>

statsVars == <<player_stats, turn_history>>

\* ------------------------------------------------------------------ bounds
\* Largest total unit count a single Location is driven to (Location spec).
MaxUnits == 2
\* Largest count passed to add_units / remove_units in one call.
MaxCount == 2
\* Largest total unit count of a location on the map (orders spec).
MaxGarrison == 1
\* Largest value the turn counter is driven to.
MaxTurn == 3
\* Longest turn order handed to set_turn_order.
MaxOrderLen == 3
\* Largest max_supply a Location is constructed with (resources spec).
MaxSupply == 3
\* Largest amount passed to a supply or crowns method in one call.
MaxAmount == 2
\* Largest number of crowns a Location is driven to.
MaxCrowns == 2
\* Largest power written to a bot's stats between updates.
MaxAward == 1
\* Largest territories and power of a bot on the leaderboard.
MaxTerritories == 3
MaxPower == 5
\* Largest number of record_turn calls, and of turns, in the history spec.
MaxRecorded == 2

\* ------------------------------------------------------------- value sets
None == "None"
ValueError == "ValueError"
Bots == {"Stark", "Lannister", "Baratheon"}
\* The bots that own land in the orders spec.
Houses == {"Stark", "Lannister"}
\* The bot the queries are made for where one bot is enough.
Caller == "Stark"
LocNames == {"A", "B", "C"}
OrderType == {"march", "support", "defend", "raid", "consolidate_power"}
UnitType == {"footman", "knight", "siege_engine", "boat"}

\* Every order in which a set of names can be iterated.
Orderings(S) ==
    {s \in [1..Cardinality(S) -> S] : \A i, j \in DOMAIN s : i # j => s[i] # s[j]}

\* The orders in which a set of location names can come out when iterated.
IterationOrders == Orderings(LocNames)

\* One of them, where the order makes no difference to the result.
AnyOrder == CHOOSE s \in IterationOrders : TRUE

\* ------------------------------------------------------------ Location
\* Location(name=n, owner=o): every other field at its dataclass default.
Location(n, o) ==
    [name |-> n, x |-> 0, y |-> 0, location_type |-> "land", owner |-> o,
     units |-> [k \in UnitType |-> 0], adjacent_locations |-> {},
     supply |-> 0, max_supply |-> 1, crowns |-> 0, fortification |-> "none"]

\* None in a field that holds a Location.
NoLocation == [name |-> None]

RECURSIVE SumUnits(_, _)
SumUnits(units, kinds) ==
    IF kinds = {} THEN 0
    ELSE LET k == CHOOSE k \in kinds : TRUE
         IN units[k] + SumUnits(units, kinds \ {k})

get_total_units(loc) == SumUnits(loc.units, DOMAIN loc.units)

\* A unit check that looks at the footmen only.
has_footmen(loc) == loc.units["footman"] > 0

has_units(loc) == get_total_units(loc) > 0

\* add_units that never assigns the owner.
AddedUnitsOwnerKept(loc, unit_type, count, owner) ==
    [loc EXCEPT !.units[unit_type] = @ + count]

\* The Location after add_units(unit_type, count, owner) returned normally.
AddedUnits(loc, unit_type, count, owner) ==
    LET owned == IF owner # None /\ loc.owner = None
                 THEN [loc EXCEPT !.owner = owner] ELSE loc
    IN [owned EXCEPT !.units[unit_type] = @ + count]

\* add_units raises: an owner is given and another bot holds the location.
OwnerConflict(loc, owner) == owner # None /\ loc.owner # None /\ loc.owner # owner

\* ---------------------------------------------------------------- Order
Order(order_type, location, target_location, bot_id) ==
    [order_type |-> order_type, location |-> location,
     target_location |-> target_location, bot_id |-> bot_id]

\* An equality that leaves the issuing bot out.
OrderEqNoIssuer(a, b) ==
    /\ a.order_type = b.order_type
    /\ a.location = b.location
    /\ a.target_location = b.target_location

\* The dataclass-generated Order.__eq__: field by field, a Location field by
\* the dataclass-generated Location.__eq__ (all of its fields).
OrderEq(a, b) ==
    /\ a.order_type = b.order_type
    /\ a.location = b.location
    /\ a.target_location = b.target_location
    /\ a.bot_id = b.bot_id

\* ------------------------------------------------------------------ Init
\* GameState(): empty map, turn 0, empty turn order.
Init ==
    /\ locations = [n \in {} |-> Location(n, None)]
    /\ turn = 0
    /\ turn_order = <<>>
    /\ current_turn_index = 0
    /\ player_stats = <<>>
    /\ turn_history = <<>>
    /\ ret = [op |-> "init", raised |-> None, value |-> None]
    /\ rotation = [start_turn |-> 0, calls |-> 0]

\* ----------------------------------------------------- Location methods
add_units(name, unit_type, count, owner) ==
    /\ name \in DOMAIN locations
    /\ IF OwnerConflict(locations[name], owner)
       THEN /\ locations' = locations
            /\ ret' = [op |-> "add_units", raised |-> ValueError, value |-> None]
       ELSE /\ locations' = [locations EXCEPT
                                ![name] = AddedUnits(@, unit_type, count, owner)]
            /\ ret' = [op |-> "add_units", raised |-> None, value |-> TRUE]
    /\ UNCHANGED <<turnVars, statsVars>>

remove_units(name, unit_type, count) ==
    /\ name \in DOMAIN locations
    /\ LET current == locations[name].units[unit_type]
       IN IF current >= count
          THEN /\ locations' = [locations EXCEPT
                                   ![name].units[unit_type] = @ - count]
               /\ ret' = [op |-> "remove_units", raised |-> None, value |-> TRUE]
          ELSE /\ locations' = locations
               /\ ret' = [op |-> "remove_units", raised |-> None, value |-> FALSE]
    /\ UNCHANGED <<turnVars, statsVars>>

set_owner(name, new_owner) ==
    /\ name \in DOMAIN locations
    /\ IF has_units(locations[name])
       THEN /\ locations' = locations
            /\ ret' = [op |-> "set_owner", raised |-> ValueError, value |-> None]
       ELSE /\ locations' = [locations EXCEPT ![name].owner = new_owner]
            /\ ret' = [op |-> "set_owner", raised |-> None, value |-> TRUE]
    /\ UNCHANGED <<turnVars, statsVars>>

\* add_supply that adds the whole amount and only reports the overflow.
AddedSupplyUncapped(loc, amount) ==
    [loc |-> [loc EXCEPT !.supply = @ + amount],
     value |-> ~(loc.supply + amount > loc.max_supply)]

\* The Location after add_supply(amount), and what the call returned.
AddedSupply(loc, amount) ==
    IF loc.supply + amount > loc.max_supply
    THEN [loc |-> [loc EXCEPT !.supply = loc.max_supply], value |-> FALSE]
    ELSE [loc |-> [loc EXCEPT !.supply = @ + amount], value |-> TRUE]

add_supply(name, amount) ==
    /\ name \in DOMAIN locations
    /\ locations' = [locations EXCEPT ![name] = AddedSupply(@, amount).loc]
    /\ ret' = [op |-> "add_supply", raised |-> None,
               value |-> AddedSupply(locations[name], amount).value]
    /\ UNCHANGED <<turnVars, statsVars>>

remove_supply(name, amount) ==
    /\ name \in DOMAIN locations
    /\ IF locations[name].supply >= amount
       THEN /\ locations' = [locations EXCEPT ![name].supply = @ - amount]
            /\ ret' = [op |-> "remove_supply", raised |-> None, value |-> TRUE]
       ELSE /\ locations' = locations
            /\ ret' = [op |-> "remove_supply", raised |-> None, value |-> FALSE]
    /\ UNCHANGED <<turnVars, statsVars>>

add_crowns(name, amount) ==
    /\ name \in DOMAIN locations
    /\ locations' = [locations EXCEPT ![name].crowns = @ + amount]
    /\ ret' = [op |-> "add_crowns", raised |-> None, value |-> TRUE]
    /\ UNCHANGED <<turnVars, statsVars>>

\* remove_crowns that spends what is there when the amount is not covered.
RemovedCrownsSpendAll(loc, amount) ==
    IF loc.crowns >= amount
    THEN [loc |-> [loc EXCEPT !.crowns = @ - amount], value |-> TRUE]
    ELSE [loc |-> [loc EXCEPT !.crowns = 0], value |-> FALSE]

\* The Location after remove_crowns(amount), and what the call returned.
RemovedCrowns(loc, amount) ==
    IF loc.crowns >= amount
    THEN [loc |-> [loc EXCEPT !.crowns = @ - amount], value |-> TRUE]
    ELSE [loc |-> loc, value |-> FALSE]

remove_crowns(name, amount) ==
    /\ name \in DOMAIN locations
    /\ locations' = [locations EXCEPT ![name] = RemovedCrowns(@, amount).loc]
    /\ ret' = [op |-> "remove_crowns", raised |-> None,
               value |-> RemovedCrowns(locations[name], amount).value]
    /\ UNCHANGED <<turnVars, statsVars>>

\* ----------------------------------------------------- GameState: the map
\* A connection recorded on the first location only.
ConnectedOneWay(locs, loc1_name, loc2_name) ==
    IF loc1_name \in DOMAIN locs /\ loc2_name \in DOMAIN locs
    THEN [locs EXCEPT ![loc1_name].adjacent_locations = @ \cup {loc2_name}]
    ELSE locs

\* The map after connect_locations(loc1_name, loc2_name).
Connected(locs, loc1_name, loc2_name) ==
    IF loc1_name \in DOMAIN locs /\ loc2_name \in DOMAIN locs
    THEN LET first == [locs EXCEPT ![loc1_name].adjacent_locations =
                          @ \cup {loc2_name}]
         IN [first EXCEPT ![loc2_name].adjacent_locations = @ \cup {loc1_name}]
    ELSE locs

add_location(location) ==
    /\ locations' = [n \in DOMAIN locations \cup {location.name} |->
                        IF n = location.name THEN location ELSE locations[n]]
    /\ ret' = [op |-> "add_location", raised |-> None, value |-> None]
    /\ UNCHANGED <<turnVars, statsVars>>

connect_locations(loc1_name, loc2_name) ==
    /\ locations' = Connected(locations, loc1_name, loc2_name)
    /\ ret' = [op |-> "connect_locations", args |-> <<loc1_name, loc2_name>>,
               raised |-> None, value |-> None]
    /\ UNCHANGED <<turnVars, statsVars>>

\* The adjacent Location objects, the adjacency set iterated in the order ord.
get_adjacent_locations(location, ord) ==
    LET names == SelectSeq(ord, LAMBDA n : n \in location.adjacent_locations
                                           /\ n \in DOMAIN locations)
    IN [i \in 1..Len(names) |-> locations[names[i]]]

get_bot_locations(bot_id) ==
    {n \in DOMAIN locations : locations[n].owner = bot_id}

\* ------------------------------------------------ GameState: the stats
\* PlayerStats(bot_id=bot_id): every other field at its dataclass default.
PlayerStats(bot_id) ==
    [bot_id |-> bot_id, territories |-> 0, power |-> 0, total_units |-> 0,
     units_killed |-> 0, orders_executed |-> 0]

get_score(stats) == (stats.territories * 10) + stats.power

\* The keys of a stats dict, and the place of a key in it.
Registered(stats) == {stats[i].bot_id : i \in DOMAIN stats}

IndexOf(stats, bot_id) == CHOOSE i \in DOMAIN stats : stats[i].bot_id = bot_id

RECURSIVE SumTotals(_)
SumTotals(names) ==
    IF names = {} THEN 0
    ELSE LET n == CHOOSE n \in names : TRUE
         IN get_total_units(locations[n]) + SumTotals(names \ {n})

get_bot_units(bot_id) == SumTotals(get_bot_locations(bot_id))

\* The stats dict after initialize_player_stats(bot_id).
Initialized(stats, bot_id) ==
    IF bot_id \notin Registered(stats)
    THEN Append(stats, PlayerStats(bot_id))
    ELSE stats

\* An update that builds the bot's stats anew from the map.
UpdatedAnew(stats, bot_id) ==
    LET known == Initialized(stats, bot_id)
    IN [known EXCEPT ![IndexOf(known, bot_id)] =
            [PlayerStats(bot_id) EXCEPT
                !.territories = Cardinality(get_bot_locations(bot_id)),
                !.total_units = get_bot_units(bot_id)]]

\* The stats dict after update_player_stats(bot_id).
Updated(stats, bot_id) ==
    LET known == Initialized(stats, bot_id)
    IN [known EXCEPT ![IndexOf(known, bot_id)] =
            [@ EXCEPT !.territories = Cardinality(get_bot_locations(bot_id)),
                      !.total_units = get_bot_units(bot_id)]]

initialize_player_stats(bot_id) ==
    /\ player_stats' = Initialized(player_stats, bot_id)
    /\ ret' = [op |-> "initialize_player_stats", bot_id |-> bot_id,
               raised |-> None, value |-> None]
    /\ UNCHANGED <<locations, turnVars, turn_history>>

update_player_stats(bot_id) ==
    /\ player_stats' = Updated(player_stats, bot_id)
    /\ ret' = [op |-> "update_player_stats", bot_id |-> bot_id,
               raised |-> None, value |-> None]
    /\ UNCHANGED <<locations, turnVars, turn_history>>

\* game.player_stats[bot_id].power = power, for a bot that has stats.
set_power(bot_id, power) ==
    /\ bot_id \in Registered(player_stats)
    /\ player_stats' = [player_stats EXCEPT
                            ![IndexOf(player_stats, bot_id)].power = power]
    /\ ret' = [op |-> "set_power", bot_id |-> bot_id,
               raised |-> None, value |-> None]
    /\ UNCHANGED <<locations, turnVars, turn_history>>

\* The tuples get_leaderboard builds, in the order of the dict.
Scores(stats) ==
    [i \in DOMAIN stats |->
        <<stats[i].bot_id, get_score(stats[i]), stats[i].territories,
          stats[i].total_units>>]

\* A placement that puts a new entry ahead of the entries it ties with.
PlacedAheadOfTies(ranked, entry) ==
    LET ahead == Cardinality({i \in DOMAIN ranked : ranked[i][2] > entry[2]})
    IN SubSeq(ranked, 1, ahead) \o <<entry>> \o SubSeq(ranked, ahead + 1, Len(ranked))

\* sorted(..., key=score, reverse=True) is stable: an entry goes behind every
\* entry with a higher or equal score that came before it in the input.
Placed(ranked, entry) ==
    LET ahead == Cardinality({i \in DOMAIN ranked : ranked[i][2] >= entry[2]})
    IN SubSeq(ranked, 1, ahead) \o <<entry>> \o SubSeq(ranked, ahead + 1, Len(ranked))

RECURSIVE SortedByScore(_)
SortedByScore(scores) ==
    IF scores = <<>> THEN <<>>
    ELSE Placed(SortedByScore(SubSeq(scores, 1, Len(scores) - 1)),
                scores[Len(scores)])

get_leaderboard ==
    /\ ret' = [op |-> "get_leaderboard", raised |-> None,
               value |-> SortedByScore(Scores(player_stats))]
    /\ UNCHANGED <<locations, turnVars, statsVars>>

\* The per-bot dict record_turn builds, in the order of player_stats.
Snapshot(stats) ==
    [i \in DOMAIN stats |->
        [bot_id |-> stats[i].bot_id, territories |-> stats[i].territories,
         power |-> stats[i].power, total_units |-> stats[i].total_units,
         score |-> get_score(stats[i])]]

\* A history that keeps one entry per turn number.
RecordedOncePerTurn(history, t, stats) ==
    LET turn_data == [turn |-> t, player_stats |-> Snapshot(stats)]
    IN IF history # <<>> /\ history[Len(history)].turn = t
       THEN [history EXCEPT ![Len(history)] = turn_data]
       ELSE Append(history, turn_data)

\* turn_history after record_turn.
Recorded(history, t, stats) ==
    Append(history, [turn |-> t, player_stats |-> Snapshot(stats)])

record_turn ==
    /\ turn_history' = Recorded(turn_history, turn, player_stats)
    /\ ret' = [op |-> "record_turn", raised |-> None, value |-> None]
    /\ UNCHANGED <<locations, turnVars, player_stats>>

\* ------------------------------------------------- LegalMoveGenerator
\* The loop with a MARCH emitted for every adjacent location, friendly or not.
RECURSIVE AdjacentOrdersMarchAll(_, _, _)
AdjacentOrdersMarchAll(bot_id, location, adjacent) ==
    IF adjacent = <<>> THEN <<>>
    ELSE LET adj_location == Head(adjacent)
             march == <<Order("march", location, adj_location, bot_id)>>
             support == IF adj_location.owner = bot_id
                        THEN <<Order("support", location, adj_location, bot_id)>>
                        ELSE <<>>
         IN march \o support
                \o AdjacentOrdersMarchAll(bot_id, location, Tail(adjacent))

\* The loop with an unowned adjacent location taken for a friendly one.
RECURSIVE AdjacentOrdersSupportUnowned(_, _, _)
AdjacentOrdersSupportUnowned(bot_id, location, adjacent) ==
    IF adjacent = <<>> THEN <<>>
    ELSE LET adj_location == Head(adjacent)
             friendly == adj_location.owner = bot_id \/ adj_location.owner = None
             march == IF ~friendly
                      THEN <<Order("march", location, adj_location, bot_id)>>
                      ELSE <<>>
             support == IF friendly
                        THEN <<Order("support", location, adj_location, bot_id)>>
                        ELSE <<>>
         IN march \o support
                \o AdjacentOrdersSupportUnowned(bot_id, location, Tail(adjacent))

\* The loop over the adjacent locations: MARCH and SUPPORT candidates.
RECURSIVE AdjacentOrders(_, _, _)
AdjacentOrders(bot_id, location, adjacent) ==
    IF adjacent = <<>> THEN <<>>
    ELSE LET adj_location == Head(adjacent)
             march == IF adj_location.owner # bot_id
                      THEN <<Order("march", location, adj_location, bot_id)>>
                      ELSE <<>>
             support == IF adj_location.owner = bot_id
                        THEN <<Order("support", location, adj_location, bot_id)>>
                        ELSE <<>>
         IN march \o support \o AdjacentOrders(bot_id, location, Tail(adjacent))

get_orders_for_location(bot_id, location, ord) ==
    <<Order("defend", location, NoLocation, bot_id)>>
        \o AdjacentOrders(bot_id, location, get_adjacent_locations(location, ord))

\* The entries made without skipping the locations that hold no unit.
LocationsWithOrdersEmptyToo(bot_id, ord) ==
    {n \in get_bot_locations(bot_id) :
        get_orders_for_location(bot_id, locations[n], ord) # <<>>}

\* The names of the locations get_legal_orders makes an entry for.
LocationsWithOrders(bot_id, ord) ==
    {n \in get_bot_locations(bot_id) :
        /\ has_units(locations[n])
        /\ get_orders_for_location(bot_id, locations[n], ord) # <<>>}

\* The dict get_legal_orders returns: location name -> candidate list.
legal_orders_by_location(bot_id, ord) ==
    [n \in LocationsWithOrders(bot_id, ord) |->
        get_orders_for_location(bot_id, locations[n], ord)]

\* What is_legal_order returns, the legal orders generated in the order ord.
IsLegal(bot_id, order, ord) ==
    LET legal == legal_orders_by_location(bot_id, ord)
    IN IF order.location.name \notin DOMAIN legal
       THEN FALSE
       ELSE \E i \in DOMAIN legal[order.location.name] :
                OrderEq(order, legal[order.location.name][i])

get_legal_orders(bot_id) ==
    /\ \E ord \in IterationOrders :
           ret' = [op |-> "get_legal_orders", bot_id |-> bot_id,
                   raised |-> None, value |-> legal_orders_by_location(bot_id, ord)]
    /\ UNCHANGED <<locations, turnVars, statsVars>>

is_legal_order(bot_id, order) ==
    /\ ret' = [op |-> "is_legal_order",
               raised |-> None, value |-> IsLegal(bot_id, order, AnyOrder)]
    /\ UNCHANGED <<locations, turnVars, statsVars>>

\* ------------------------------------------------- GameState: turn order
\* set_turn_order that starts the game over: the turn counter back at 0.
set_turn_order_from_turn_0(bot_order) ==
    /\ turn_order' = bot_order
    /\ current_turn_index' = 0
    /\ turn' = 0
    /\ rotation' = [start_turn |-> 0, calls |-> 0]
    /\ ret' = [op |-> "set_turn_order", raised |-> None, value |-> None]
    /\ UNCHANGED <<locations, statsVars>>

set_turn_order(bot_order) ==
    /\ turn_order' = bot_order
    /\ current_turn_index' = 0
    /\ rotation' = [start_turn |-> turn, calls |-> 0]
    /\ ret' = [op |-> "set_turn_order", raised |-> None, value |-> None]
    /\ UNCHANGED <<locations, turn, statsVars>>

get_current_player ==
    /\ ret' = [op |-> "get_current_player",
               raised |-> None, value |-> IF turn_order = <<>> THEN None
                         ELSE turn_order[current_turn_index + 1]]
    /\ UNCHANGED <<locations, turnVars, statsVars>>

\* next_turn that wraps the pointer and forgets the turn counter.
AdvancedSameTurn(index, t, n) ==
    IF index + 1 >= n THEN [index |-> 0, turn |-> t]
    ELSE [index |-> index + 1, turn |-> t]

\* next_turn that wraps the pointer one call late.
AdvancedPastEnd(index, t, n) ==
    IF index + 1 > n THEN [index |-> 0, turn |-> t + 1]
    ELSE [index |-> index + 1, turn |-> t]

\* The pointer and the turn counter after next_turn on a non-empty order.
Advanced(index, t, n) ==
    IF index + 1 >= n THEN [index |-> 0, turn |-> t + 1]
    ELSE [index |-> index + 1, turn |-> t]

next_turn ==
    /\ IF turn_order = <<>>
       THEN UNCHANGED <<current_turn_index, turn, rotation>>
       ELSE LET after == Advanced(current_turn_index, turn, Len(turn_order))
            IN /\ current_turn_index' = after.index
               /\ turn' = after.turn
               /\ rotation' = IF current_turn_index = 0
                              THEN [start_turn |-> turn, calls |-> 1]
                              ELSE [rotation EXCEPT !.calls = @ + 1]
    /\ ret' = [op |-> "next_turn", raised |-> None, value |-> None]
    /\ UNCHANGED <<locations, turn_order, statsVars>>

reset_turn_order ==
    /\ current_turn_index' = 0
    /\ rotation' = [start_turn |-> turn, calls |-> 0]
    /\ ret' = [op |-> "reset_turn_order", raised |-> None, value |-> None]
    /\ UNCHANGED <<locations, turn, turn_order, statsVars>>

\* ------------------------------------------------------- specifications
\* Map assembly: add_location and connect_locations on a new GameState,
\* each location handed over as Location(name=..., owner=...).
Next ==
    \/ \E n \in LocNames, o \in {None, Caller} : add_location(Location(n, o))
    \/ \E a \in LocNames, b \in LocNames : connect_locations(a, b)

Spec == Init /\ [][Next]_vars

\* One Location and its unit and ownership methods.
InitLocation ==
    /\ locations = [n \in {"A"} |-> Location(n, None)]
    /\ turn = 0
    /\ turn_order = <<>>
    /\ current_turn_index = 0
    /\ player_stats = <<>>
    /\ turn_history = <<>>
    /\ ret = [op |-> "init", raised |-> None, value |-> None]
    /\ rotation = [start_turn |-> 0, calls |-> 0]

NextLocation ==
    \/ \E k \in UnitType, c \in 0..MaxCount, o \in Houses \cup {None} :
          /\ get_total_units(locations["A"]) + c <= MaxUnits
          /\ add_units("A", k, c, o)
    \/ \E k \in UnitType, c \in 0..MaxCount : remove_units("A", k, c)
    \/ \E o \in Houses : set_owner("A", o)

SpecLocation == InitLocation /\ [][NextLocation]_vars

\* One Location constructed with some max_supply, and its unit, supply and
\* crowns methods called with amounts from 0 upwards.
InitResources ==
    /\ \E m \in 1..MaxSupply :
          locations = [n \in {"A"} |-> [Location(n, None) EXCEPT !.max_supply = m]]
    /\ turn = 0
    /\ turn_order = <<>>
    /\ current_turn_index = 0
    /\ player_stats = <<>>
    /\ turn_history = <<>>
    /\ ret = [op |-> "init", raised |-> None, value |-> None]
    /\ rotation = [start_turn |-> 0, calls |-> 0]

\* The unit kinds the resources specs move.
Troops == {"footman", "knight"}

NextResources ==
    \/ \E k \in Troops, c \in 0..MaxCount, o \in {None, Caller} :
          /\ get_total_units(locations["A"]) + c <= MaxUnits
          /\ add_units("A", k, c, o)
    \/ \E k \in Troops, c \in 0..MaxCount : remove_units("A", k, c)
    \/ \E amount \in 0..MaxAmount : add_supply("A", amount)
    \/ \E amount \in 0..MaxAmount : remove_supply("A", amount)
    \/ \E amount \in 0..MaxAmount :
          /\ locations["A"].crowns + amount <= MaxCrowns
          /\ add_crowns("A", amount)
    \/ \E amount \in 0..MaxAmount : remove_crowns("A", amount)

SpecResources == InitResources /\ [][NextResources]_vars

\* The same methods on a default Location, the amounts taken from the
\* integers on both sides of 0 (none of the methods checks the sign).
AnyAmount == -MaxAmount..MaxAmount

NextAnyAmount ==
    \/ \E c \in AnyAmount :
          /\ locations["A"].units["footman"] + c \in AnyAmount
          /\ add_units("A", "footman", c, None)
    \/ \E c \in AnyAmount :
          /\ locations["A"].units["footman"] - c \in AnyAmount
          /\ remove_units("A", "footman", c)
    \/ \E amount \in AnyAmount :
          /\ locations["A"].supply + amount \in AnyAmount
          /\ add_supply("A", amount)
    \/ \E amount \in AnyAmount :
          /\ locations["A"].supply - amount \in AnyAmount
          /\ remove_supply("A", amount)
    \/ \E amount \in AnyAmount :
          /\ locations["A"].crowns + amount \in AnyAmount
          /\ add_crowns("A", amount)
    \/ \E amount \in AnyAmount :
          /\ locations["A"].crowns - amount \in AnyAmount
          /\ remove_crowns("A", amount)

SpecAnyAmount == InitLocation /\ [][NextAnyAmount]_vars

\* The stats of two bots kept on a map of three registered locations, of
\* which A and B change hands while empty and A is garrisoned.
InitStats ==
    /\ locations = [n \in LocNames |-> Location(n, None)]
    /\ turn = 0
    /\ turn_order = <<>>
    /\ current_turn_index = 0
    /\ player_stats = <<>>
    /\ turn_history = <<>>
    /\ ret = [op |-> "init", raised |-> None, value |-> None]
    /\ rotation = [start_turn |-> 0, calls |-> 0]

NextStats ==
    \/ \E n \in {"A", "B"}, o \in Houses : set_owner(n, o)
    \/ \E c \in 1..MaxGarrison :
          /\ get_total_units(locations["A"]) + c <= MaxGarrison
          /\ add_units("A", "footman", c, None)
    \/ \E b \in Houses : initialize_player_stats(b)
    \/ \E b \in Houses : update_player_stats(b)
    \/ \E p \in 0..MaxAward : set_power(Caller, p)

SpecStats == InitStats /\ [][NextStats]_vars

\* The leaderboard of a game in progress: up to three bots registered in
\* some order, each with territories, power and two units per territory.
Registrations ==
    {order \in UNION {[1..n -> Bots] : n \in 0..Cardinality(Bots)} :
        \A i, j \in DOMAIN order : i # j => order[i] # order[j]}

Standing(bot_id, territories, power) ==
    [PlayerStats(bot_id) EXCEPT !.territories = territories, !.power = power,
                                !.total_units = 2 * territories]

InitLeaderboard ==
    /\ locations = [n \in {} |-> Location(n, None)]
    /\ turn = 0
    /\ turn_order = <<>>
    /\ current_turn_index = 0
    /\ \E order \in Registrations :
          \E territories \in [DOMAIN order -> 0..MaxTerritories],
             power \in [DOMAIN order -> 0..MaxPower] :
              player_stats = [i \in DOMAIN order |->
                                 Standing(order[i], territories[i], power[i])]
    /\ turn_history = <<>>
    /\ ret = [op |-> "init", raised |-> None, value |-> None]
    /\ rotation = [start_turn |-> 0, calls |-> 0]

NextLeaderboard == get_leaderboard

SpecLeaderboard == InitLeaderboard /\ [][NextLeaderboard]_vars

\* The turn rotation.
TurnOrders == UNION {[1..n -> Bots] : n \in 0..MaxOrderLen}

NextTurn ==
    \/ \E bot_order \in TurnOrders : set_turn_order(bot_order)
    \/ get_current_player
    \/ turn < MaxTurn /\ next_turn
    \/ reset_turn_order

SpecTurn == Init /\ [][NextTurn]_vars

\* Legal-order generation on an assembled map: three registered locations,
\* some roads between them, each location owned by a house or by nobody and
\* garrisoned with footmen by add_units.
Roads == {<<"A", "B">>, <<"A", "C">>, <<"A", "A">>}

RECURSIVE RoadMap(_)
RoadMap(roads) ==
    IF roads = {} THEN [n \in LocNames |-> Location(n, None)]
    ELSE LET r == CHOOSE r \in roads : TRUE
         IN Connected(RoadMap(roads \ {r}), r[1], r[2])

Garrisoned(locs, owners, footmen) ==
    [n \in DOMAIN locs |->
        AddedUnits([locs[n] EXCEPT !.owner = owners[n]], "footman", footmen[n], None)]

InitOrders ==
    /\ \E roads \in SUBSET Roads, owners \in [LocNames -> Houses \cup {None}],
          footmen \in [LocNames -> 0..MaxGarrison] :
          locations = Garrisoned(RoadMap(roads), owners, footmen)
    /\ turn = 0
    /\ turn_order = <<>>
    /\ current_turn_index = 0
    /\ player_stats = <<>>
    /\ turn_history = <<>>
    /\ ret = [op |-> "init", raised |-> None, value |-> None]
    /\ rotation = [start_turn |-> 0, calls |-> 0]

\* The orders handed to is_legal_order: built on the map's Location objects,
\* or on a newly constructed Location that carries a map name.
OrderInputs ==
    {Order(t, l, g, b) :
        t \in {"march", "support", "defend", "raid"},
        l \in {locations["A"], Location("A", None)},
        g \in {locations["A"], locations["B"], NoLocation},
        b \in Houses}

NextOrders ==
    \/ \E b \in Houses : get_legal_orders(b)
    \/ \E order \in OrderInputs : is_legal_order(Caller, order)

SpecOrders == InitOrders /\ [][NextOrders]_vars

\* A game that records its turns: one bot holds two garrisoned locations,
\* its stats are set up and updated, its power is rewritten, and the turns pass.
InitHistory ==
    /\ locations = Garrisoned([n \in LocNames |-> Location(n, None)],
                              [n \in LocNames |-> IF n = "C" THEN None ELSE Caller],
                              [n \in LocNames |-> 1])
    /\ turn = 0
    /\ turn_order = <<>>
    /\ current_turn_index = 0
    /\ player_stats = <<>>
    /\ turn_history = <<>>
    /\ ret = [op |-> "init", raised |-> None, value |-> None]
    /\ rotation = [start_turn |-> 0, calls |-> 0]

NextHistory ==
    \/ Len(turn_history) < MaxRecorded /\ record_turn
    \/ initialize_player_stats(Caller)
    \/ update_player_stats(Caller)
    \/ \E p \in 0..MaxAward : set_power(Caller, p)
    \/ turn < MaxRecorded /\ next_turn
    \/ set_turn_order(<<Caller>>)

SpecHistory == InitHistory /\ [][NextHistory]_vars

\* ================================================================ claims
\* ---------------------------------------------------------------- C1
\* What a next_turn step does to the pointer and the turn counter.
C1_NextTurnStep ==
    next_turn /\ turn_order # <<>> =>
        LET n == Len(turn_order)
            i == current_turn_index
        IN /\ current_turn_index' = (i + 1) % n
           /\ turn' = IF i = n - 1 THEN turn + 1 ELSE turn

\* Where the calls counted since the pointer last stood at index 0 lead.
C1_FullRotation ==
    turn_order # <<>> /\ rotation.calls > 0 =>
        IF rotation.calls = Len(turn_order)
        THEN current_turn_index = 0 /\ turn = rotation.start_turn + 1
        ELSE /\ rotation.calls < Len(turn_order)
             /\ current_turn_index = rotation.calls
             /\ turn = rotation.start_turn

\* C1: with a non-empty turn order of length n and the pointer at index i,
\* next_turn sets the pointer to (i+1) mod n and adds 1 to the turn counter
\* exactly when i = n-1; hence n consecutive next_turn calls that start at
\* index 0 bring the pointer back to 0 and raise turn by exactly 1 (and fewer
\* calls leave turn as it was, the pointer at the number of calls made).
C1_NextTurn == [][C1_NextTurnStep]_vars /\ []C1_FullRotation

C1_Witness ==
    /\ ret.op = "next_turn"
    /\ Len(turn_order) = 3
    /\ rotation.calls = 3
    /\ current_turn_index = 0
    /\ turn = 1

\* ---------------------------------------------------------------- C2
\* The positions of a candidate list whose order has the given type.
OfType(orders, order_type) ==
    {i \in DOMAIN orders : orders[i].order_type = order_type}

\* The positions of a candidate list whose order targets the named location.
Targeting(orders, name) ==
    {i \in DOMAIN orders : orders[i].target_location.name = name}

\* C2: for every bot and every location L it owns that holds at least one
\* unit, the candidate list generated for L holds exactly one DEFEND order,
\* first and without target, and exactly one further order per neighbor of L
\* (a MARCH or a SUPPORT from L), so 1 + the number of neighbors in all, and
\* no neighbor is the target of both a MARCH and a SUPPORT.
C2_OneOrderPerNeighbor ==
    ret.op = "get_legal_orders" =>
        \A n \in DOMAIN locations :
            locations[n].owner = ret.bot_id /\ get_total_units(locations[n]) >= 1 =>
                /\ n \in DOMAIN ret.value
                /\ LET orders == ret.value[n]
                       neighbors == locations[n].adjacent_locations
                   IN /\ Cardinality(OfType(orders, "defend")) = 1
                      /\ orders[1].order_type = "defend"
                      /\ orders[1].target_location = NoLocation
                      /\ Len(orders) = 1 + Cardinality(neighbors)
                      /\ \A i \in 2..Len(orders) :
                            /\ orders[i].order_type \in {"march", "support"}
                            /\ orders[i].target_location.name \in neighbors
                            /\ orders[i].location = locations[n]
                      /\ \A nb \in neighbors :
                            /\ Cardinality(Targeting(orders, nb)) = 1
                            /\ ~ \E i, j \in Targeting(orders, nb) :
                                    /\ orders[i].order_type = "march"
                                    /\ orders[j].order_type = "support"

\* A location with three neighbors, marched on and supported from.
C2_Witness ==
    /\ ret.op = "get_legal_orders"
    /\ "A" \in DOMAIN ret.value
    /\ Len(ret.value["A"]) = 4
    /\ OfType(ret.value["A"], "march") # {}
    /\ OfType(ret.value["A"], "support") # {}

\* ---------------------------------------------------------------- C3
\* C3: in the candidate list generated for a bot's location L, the order that
\* targets neighbor N is a MARCH when N's owner differs from the bot (an
\* unowned N included) and a SUPPORT when N's owner is the bot; an unowned
\* neighbor is only ever the target of a MARCH.
C3_MarchOrSupportByOwner ==
    ret.op = "get_legal_orders" =>
        \A n \in DOMAIN ret.value :
            \A nb \in locations[n].adjacent_locations :
                /\ Targeting(ret.value[n], nb) # {}
                /\ \A i \in Targeting(ret.value[n], nb) :
                      LET order == ret.value[n][i]
                      IN /\ order.target_location = locations[nb]
                         /\ order.bot_id = ret.bot_id
                         /\ locations[nb].owner # ret.bot_id => order.order_type = "march"
                         /\ locations[nb].owner = ret.bot_id => order.order_type = "support"
                         /\ locations[nb].owner = None => order.order_type = "march"

\* A has an unowned neighbor and a friendly one, and is not its own neighbor.
C3_Witness ==
    /\ ret.op = "get_legal_orders"
    /\ "A" \in DOMAIN ret.value
    /\ locations["A"].adjacent_locations = {"B", "C"}
    /\ locations["B"].owner = None
    /\ locations["C"].owner = ret.bot_id
    /\ \E i, j \in DOMAIN ret.value["A"] :
          /\ ret.value["A"][i].order_type = "march"
          /\ ret.value["A"][i].target_location.name = "B"
          /\ ret.value["A"][j].order_type = "support"
          /\ ret.value["A"][j].target_location.name = "C"

\* ---------------------------------------------------------------- C4
\* C4: the keys of the mapping get_legal_orders(bot) returns are exactly the
\* names of the locations the bot owns whose total unit count is above zero:
\* an owned location without units has no entry, and a bot without locations,
\* or with empty ones only, gets the empty mapping.
C4_KeysAreGarrisonedOwned ==
    ret.op = "get_legal_orders" =>
        LET owned == {n \in DOMAIN locations : locations[n].owner = ret.bot_id}
        IN /\ DOMAIN ret.value =
                {locations[n].name : n \in {m \in owned : get_total_units(locations[m]) > 0}}
           /\ \A n \in owned : get_total_units(locations[n]) = 0 => n \notin DOMAIN ret.value
           /\ (\A n \in owned : get_total_units(locations[n]) = 0) => ret.value = << >>

\* The bot owns a garrisoned location and an empty one: one key.
C4_Witness ==
    /\ ret.op = "get_legal_orders"
    /\ locations["A"].owner = ret.bot_id
    /\ locations["B"].owner = ret.bot_id
    /\ get_total_units(locations["A"]) = 0
    /\ get_total_units(locations["B"]) > 0
    /\ DOMAIN ret.value = {"B"}

\* ---------------------------------------------------------------- C5
\* The legal-order entry of the order's origin holds an order with the same
\* type, origin, target and issuing bot.
InLegalSet(bot_id, order, ord) ==
    LET legal == legal_orders_by_location(bot_id, ord)
        name == order.location.name
    IN /\ name \in DOMAIN legal
       /\ \E i \in DOMAIN legal[name] :
              /\ legal[name][i].order_type = order.order_type
              /\ legal[name][i].location = order.location
              /\ legal[name][i].target_location = order.target_location
              /\ legal[name][i].bot_id = order.bot_id

\* C5: is_legal_order(bot, order) is True exactly when get_legal_orders(bot),
\* recomputed on the current state, has an entry for the order's origin and
\* the entry holds an order equal to it in type, origin, target and issuer;
\* so it is False when the origin has no units, when the bot does not own the
\* origin and when the order's issuer is not the bot.
C5_IsLegalOrder ==
    ret.op = "is_legal_order" =>
        /\ ret.value \in BOOLEAN
        /\ \A order \in OrderInputs :
              LET result == IsLegal(Caller, order, AnyOrder)
                  name == order.location.name
              IN /\ result = InLegalSet(Caller, order, AnyOrder)
                 /\ get_total_units(locations[name]) = 0 => result = FALSE
                 /\ locations[name].owner # Caller => result = FALSE
                 /\ order.bot_id # Caller => result = FALSE

\* is_legal_order has just accepted a MARCH, which it refuses to the other
\* bot and refuses when built on a new Location object named like the origin.
C5_Witness ==
    /\ ret.op = "is_legal_order"
    /\ ret.value = TRUE
    /\ \E order \in OrderInputs :
          /\ order.order_type = "march"
          /\ IsLegal(Caller, order, AnyOrder)
          /\ ~IsLegal(Caller, [order EXCEPT !.bot_id = "Lannister"], AnyOrder)
          /\ ~IsLegal(Caller, [order EXCEPT !.location = Location("A", None)], AnyOrder)

\* ---------------------------------------------------------------- C6
\* What a set_owner step does.
C6_SetOwnerStep ==
    \A n \in DOMAIN locations, o \in Houses :
        set_owner(n, o) =>
            IF get_total_units(locations[n]) = 0
            THEN /\ ret'.raised = None /\ ret'.value = TRUE
                 /\ locations' = [locations EXCEPT ![n].owner = o]
            ELSE /\ ret'.raised = ValueError
                 /\ locations' = locations

\* C6: set_owner(new_owner) succeeds if and only if the location's total unit
\* count is 0 at the call, and then the owner becomes new_owner whatever it
\* was; with any unit on the location the call raises and leaves the owner,
\* the units and every other field as they were.
C6_SetOwner == [][C6_SetOwnerStep]_vars

\* set_owner has just been refused on a location that holds knights only.
C6_Witness ==
    /\ ret.op = "set_owner"
    /\ ret.raised = ValueError
    /\ locations["A"].units["footman"] = 0
    /\ locations["A"].units["knight"] > 0

\* ---------------------------------------------------------------- C7
\* What an add_units step with an owner does.
C7_AddUnitsStep ==
    \A n \in DOMAIN locations, k \in UnitType, c \in 0..MaxCount, o \in Houses :
        add_units(n, k, c, o) =>
            LET loc == locations[n]
                added == [loc.units EXCEPT ![k] = loc.units[k] + c]
            IN CASE loc.owner = None ->
                      /\ ret'.raised = None /\ ret'.value = TRUE
                      /\ locations' = [locations EXCEPT
                                          ![n] = [loc EXCEPT !.owner = o, !.units = added]]
                 [] loc.owner = o ->
                      /\ ret'.raised = None /\ ret'.value = TRUE
                      /\ locations' = [locations EXCEPT ![n] = [loc EXCEPT !.units = added]]
                 [] OTHER ->
                      /\ ret'.raised = ValueError
                      /\ locations' = locations

C8_OwnerChangeStep ==
    \A n \in DOMAIN locations :
        locations'[n].owner # locations[n].owner => get_total_units(locations[n]) = 0

\* C8: over any sequence of add_units, remove_units and set_owner calls, the
\* owner of a location is only ever set or changed by a call made while the
\* location holds zero units in total.
C8_OwnerSetOnlyWhenEmpty == [][C8_OwnerChangeStep]_vars

\* ---------------------------------------------------------------- C9
\* C9: after any sequence of add_location and connect_locations calls,
\* adjacency is symmetric: for all locations A and B of the map, B is in A's
\* adjacent set if and only if A is in B's.
C9_AdjacencySymmetric ==
    \A a \in DOMAIN locations, b \in DOMAIN locations :
        b \in locations[a].adjacent_locations <=> a \in locations[b].adjacent_locations

\* ---------------------------------------------------------------- C10
\* What a connect_locations step does.
C10_ConnectStep ==
    \A a \in LocNames, b \in LocNames :
        connect_locations(a, b) =>
            /\ ret'.raised = None
            /\ a \notin DOMAIN locations \/ b \notin DOMAIN locations =>
                  locations' = locations
            /\ ret.op = "connect_locations" /\ ret.args \in {<<a, b>>, <<b, a>>} =>
                  locations' = locations

\* C10: connect_locations(a, b) called a second time with the same names, in
\* either argument order, leaves the whole map unchanged; called with a name
\* that is no location of the map it changes nothing and raises nothing.
C10_ConnectIdempotent == [][C10_ConnectStep]_vars

\* connect_locations(B, A) has returned on a map where A and B are joined.
C10_Witness ==
    /\ ret.op = "connect_locations"
    /\ ret.args = <<"B", "A">>
    /\ {"A", "B"} \subseteq DOMAIN locations
    /\ "B" \in locations["A"].adjacent_locations
    /\ "A" \in locations["B"].adjacent_locations

\* ---------------------------------------------------------------- C11
\* What an add_supply step does.
C11_AddSupplyStep ==
    \A n \in DOMAIN locations, amount \in 0..MaxAmount :
        add_supply(n, amount) =>
            LET old == locations[n].supply
                cap == locations[n].max_supply
                least == IF old + amount <= cap THEN old + amount ELSE cap
            IN /\ locations' = [locations EXCEPT ![n].supply = least]
               /\ ret'.value = (old + amount <= cap)
               /\ old = cap => locations'[n].supply = cap

\* The supply of every location is within its cap.
C11_WithinCap ==
    \A n \in DOMAIN locations : locations[n].supply <= locations[n].max_supply

C12_NeverNegative ==
    \A n \in DOMAIN locations :
        /\ \A k \in UnitType : locations[n].units[k] >= 0
        /\ locations[n].supply >= 0
        /\ locations[n].crowns >= 0

\* ---------------------------------------------------------------- C13
\* The location with the one quantity lowered by the amount, the rest kept.
C13_Decreased(loc, field, amount) ==
    [loc EXCEPT ![field] = @ - amount]

\* What a remove_units, remove_supply or remove_crowns step does.
C13_RemoveStep ==
    \A n \in DOMAIN locations, amount \in 0..MaxAmount :
        /\ \A k \in UnitType, count \in 0..MaxCount :
              remove_units(n, k, count) =>
                  IF locations[n].units[k] >= count
                  THEN /\ ret'.value = TRUE
                       /\ locations' = [locations EXCEPT
                              ![n].units = [locations[n].units EXCEPT ![k] = @ - count]]
                  ELSE ret'.value = FALSE /\ locations' = locations
        /\ remove_supply(n, amount) =>
              IF locations[n].supply >= amount
              THEN /\ ret'.value = TRUE
                   /\ locations' = [locations EXCEPT
                                       ![n] = C13_Decreased(@, "supply", amount)]
              ELSE ret'.value = FALSE /\ locations' = locations
        /\ remove_crowns(n, amount) =>
              IF locations[n].crowns >= amount
              THEN /\ ret'.value = TRUE
                   /\ locations' = [locations EXCEPT
                                       ![n] = C13_Decreased(@, "crowns", amount)]
              ELSE ret'.value = FALSE /\ locations' = locations

\* C13: remove_units(kind, n), remove_supply(n) and remove_crowns(n) return
\* True and decrease the quantity by exactly n when the quantity is at least
\* n, and otherwise return False and leave the location as it was; no other
\* field (owner, other unit kinds, other resources) changes.
C13_Remove == [][C13_RemoveStep]_vars

\* remove_crowns has just been refused on a location that holds a crown,
\* supply, units and an owner.
C13_Witness ==
    /\ ret.op = "remove_crowns"
    /\ ret.value = FALSE
    /\ locations["A"].crowns = 1
    /\ locations["A"].supply > 0
    /\ locations["A"].owner = Caller
    /\ get_total_units(locations["A"]) > 0

\* ---------------------------------------------------------------- C14
\* What an update_player_stats step does.
C14_UpdateStep ==
    \A b \in Houses :
        update_player_stats(b) =>
            LET held(n) == IF locations[n].owner = b
                           THEN get_total_units(locations[n]) ELSE 0
                before == IF b \in Registered(player_stats)
                          THEN player_stats[IndexOf(player_stats, b)]
                          ELSE PlayerStats(b)
                after == player_stats'[IndexOf(player_stats', b)]
            IN /\ after.territories =
                      Cardinality({n \in DOMAIN locations : locations[n].owner = b})
               /\ after.total_units = held("A") + held("B") + held("C")
               /\ after.power = before.power
               /\ after.units_killed = before.units_killed
               /\ after.orders_executed = before.orders_executed
               /\ \A i \in DOMAIN player_stats :
                     player_stats[i].bot_id # b => player_stats'[i] = player_stats[i]
               /\ Registered(player_stats') = Registered(player_stats) \cup {b}
               /\ Len(player_stats') = Cardinality(Registered(player_stats'))
               /\ locations' = locations
               /\ turn_history' = turn_history

\* C14: update_player_stats(bot) sets the bot's territories to the number of
\* locations the bot owns and its total_units to the sum of all unit counts
\* over those locations, and leaves the bot's power, units_killed and
\* orders_executed, every other bot's stats and the map unchanged.
C14_UpdatePlayerStats == [][C14_UpdateStep]_vars

\* Stark's stats, holding power, have just been updated to two territories
\* and one unit, next to Lannister's, which still count a territory lost.
C14_Witness ==
    /\ ret.op = "update_player_stats"
    /\ ret.bot_id = "Stark"
    /\ Len(player_stats) = 2
    /\ player_stats[1].bot_id = "Lannister"
    /\ player_stats[1].territories = 1
    /\ get_bot_locations("Lannister") = {}
    /\ player_stats[2].power = 1
    /\ player_stats[2].territories = 2
    /\ player_stats[2].total_units = 1

\* ---------------------------------------------------------------- C15
\* The bots that stand at the given territories and power.
C15_Standing(territories, power) ==
    {i \in DOMAIN player_stats : /\ player_stats[i].territories = territories
                                 /\ player_stats[i].power = power}

\* C15: get_leaderboard returns exactly one entry per bot in player_stats,
\* each with score = territories*10 + power, in order of non-increasing
\* score, bots of equal score in the order they were registered; bots at
\* (territories, power) = (3,5), (2,3), (1,2) score 35, 23, 12 and rank in
\* that order.
C15_Leaderboard ==
    ret.op = "get_leaderboard" =>
        LET board == ret.value
        IN /\ Len(board) = Len(player_stats)
           /\ \A i \in DOMAIN player_stats :
                 LET stats == player_stats[i]
                     places == {j \in DOMAIN board : board[j][1] = stats.bot_id}
                 IN /\ Cardinality(places) = 1
                    /\ \A j \in places :
                          board[j] = <<stats.bot_id, stats.territories * 10 + stats.power,
                                       stats.territories, stats.total_units>>
           /\ \A j, k \in DOMAIN board :
                 j < k =>
                    /\ board[j][2] >= board[k][2]
                    /\ board[j][2] = board[k][2] =>
                          IndexOf(player_stats, board[j][1])
                              < IndexOf(player_stats, board[k][1])
           /\ \A a \in C15_Standing(3, 5), b \in C15_Standing(2, 3),
                 c \in C15_Standing(1, 2) :
                 /\ <<board[1][1], board[1][2]>> = <<player_stats[a].bot_id, 35>>
                 /\ <<board[2][1], board[2][2]>> = <<player_stats[b].bot_id, 23>>
                 /\ <<board[3][1], board[3][2]>> = <<player_stats[c].bot_id, 12>>

\* The leaderboard of bots registered at (1,2), (2,3) and (3,5), in that
\* order, has just been returned: 35 first, 12 last.
C15_Witness ==
    /\ ret.op = "get_leaderboard"
    /\ C15_Standing(1, 2) = {1}
    /\ C15_Standing(2, 3) = {2}
    /\ C15_Standing(3, 5) = {3}
    /\ ret.value[1][2] = 35
    /\ ret.value[3][2] = 12

\* ---------------------------------------------------------------- C16
\* What a step does to the history: record_turn appends one entry that shows
\* the turn and the stats of the moment, and every step keeps each entry the
\* history holds where it is and as it is.
C16_HistoryStep ==
    /\ record_turn =>
          /\ Len(turn_history') = Len(turn_history) + 1
          /\ LET turn_data == turn_history'[Len(turn_history')]
             IN /\ turn_data.turn = turn
                /\ Len(turn_data.player_stats) = Len(player_stats)
                /\ \A i \in DOMAIN player_stats :
                      turn_data.player_stats[i] =
                          [bot_id |-> player_stats[i].bot_id,
                           territories |-> player_stats[i].territories,
                           power |-> player_stats[i].power,
                           total_units |-> player_stats[i].total_units,
                           score |-> player_stats[i].territories * 10
                                        + player_stats[i].power]
    /\ Len(turn_history') # Len(turn_history) => ret'.op = "record_turn"
    /\ \A i \in DOMAIN turn_history :
          /\ i \in DOMAIN turn_history'
          /\ turn_history'[i] = turn_history[i]

\* C16: each record_turn call appends exactly one entry to turn_history,
\* holding the current turn number and, for every bot in player_stats, its
\* territories, power, total_units and score at that moment; no later
\* operation (record_turn, update_player_stats, a change of a bot's power,
\* next_turn, set_turn_order) changes, reorders or removes an entry.
C16_RecordTurn == [][C16_HistoryStep]_vars

\* Two entries of turn 1, the first taken with power 1, are in the history
\* after the power went back to 0, the stats were updated and the turn passed.
C16_Witness ==
    /\ ret.op = "next_turn"
    /\ turn = 2
    /\ Len(turn_history) = 2
    /\ turn_history[1].turn = 1
    /\ turn_history[2].turn = 1
    /\ Len(turn_history[1].player_stats) = 1
    /\ Len(turn_history[2].player_stats) = 1
    /\ turn_history[1].player_stats[1].power = 1
    /\ turn_history[1].player_stats[1].territories = 0
    /\ turn_history[2].player_stats[1].territories = 2
    /\ player_stats[1].power = 0

\* ---------------------------------------------------------------- C17
\* What a set_turn_order step does, and what get_current_player returns in
\* the state set_turn_order leaves.
C17_SetTurnOrderStep ==
    /\ \A bot_order \in TurnOrders :
          set_turn_order(bot_order) =>
              /\ turn_order' = bot_order
              /\ current_turn_index' = 0
              /\ turn' = turn
    /\ get_current_player /\ ret.op = "set_turn_order" =>
          /\ ret'.raised = None
          /\ ret'.value = IF turn_order = <<>> THEN None ELSE turn_order[1]

\* C17: set_turn_order(sequence), called in any state, replaces the rotation
\* with the sequence and resets the pointer to index 0 without changing the
\* turn counter; get_current_player called right after returns the first bot
\* of the new sequence, or None when the sequence is empty.
C17_SetTurnOrder == [][C17_SetTurnOrderStep]_vars

\* After a full turn, with no next_turn call since the pointer was last put
\* to 0, get_current_player has returned the head of a two-bot order.
C17_Witness ==
    /\ ret.op = "get_current_player"
    /\ turn = 1
    /\ rotation = [start_turn |-> 1, calls |-> 0]
    /\ turn_order = <<"Lannister", "Stark">>
    /\ ret.value = "Lannister"

\* ---------------------------------------------------------------- C18
\* The pointer is 0 on an empty order and an index of the order otherwise.
C18_PointerInRange ==
    IF turn_order = <<>>
    THEN current_turn_index = 0
    ELSE 0 <= current_turn_index /\ current_turn_index < Len(turn_order)

\* get_current_player returns a member of the order, None on an empty one;
\* next_turn on an empty order leaves the pointer and the turn counter.
C18_Step ==
    /\ get_current_player =>
          /\ ret'.raised = None
          /\ IF turn_order = <<>>
             THEN ret'.value = None
             ELSE \E i \in DOMAIN turn_order : ret'.value = turn_order[i]
    /\ next_turn /\ turn_order = <<>> =>
          current_turn_index' = current_turn_index /\ turn' = turn

\* C18: after any sequence of set_turn_order, next_turn and reset_turn_order
\* calls, current_turn_index is 0 when the turn order is empty and otherwise
\* 0 <= current_turn_index < len(turn_order), so get_current_player returns
\* a member of the turn order and never indexes out of range; next_turn on
\* an empty turn order changes neither the pointer nor the turn counter.
C18_PointerStaysInRange == []C18_PointerInRange /\ [][C18_Step]_vars

\* The last bot of a three-bot order has just been returned as the current
\* player, in a later turn.
C18_Witness ==
    /\ ret.op = "get_current_player"
    /\ Len(turn_order) = 3
    /\ current_turn_index = 2
    /\ turn > 0
    /\ ret.value = turn_order[3]
====
